---- MODULE Spec2Model ----
(***************************************************************************)
(* Model of celer/homotopy.py: the group-partition converter               *)
(* _grp_converter and the two path-continuation drivers celer_path and     *)
(* mtl_path.  The inner solvers (celer, celer_grp, newton_celer,           *)
(* celer_mtl) are compiled extensions outside homotopy.py; they appear     *)
(* here as an oracle that returns an arbitrary iterate and duality gap.    *)
(***************************************************************************)
EXTENDS Integers, Sequences, FiniteSets, TLC

(* ------------------------------------------------------------------ *)
(* Bounds of the model                                                 *)
(* ------------------------------------------------------------------ *)
MaxFeatures == 4    \* n_features handed to _grp_converter ranges over 0..MaxFeatures
MaxIndex == 1       \* the feature indices of an index list range over 0..MaxIndex
MaxSize == 2        \* |group size| <= MaxSize; length of an index list <= MaxSize
MaxGroups == 2      \* a list-valued groups argument has at most MaxGroups entries

(* Problem codes, homotopy.py lines 21-23 *)
LASSO == 0
LOGREG == 1
GRPLASSO == 2

(* ------------------------------------------------------------------ *)
(* Helpers: Python integer arithmetic and numpy primitives             *)
(* ------------------------------------------------------------------ *)
\* all sequences over S of length lo..hi
SeqsOf(S, lo, hi) == UNION {[1..m -> S] : m \in lo..hi}

\* Python's a % b for b # 0: the result has the sign of b
PyMod(a, b) == IF b > 0 THEN a % b ELSE -((-a) % (-b))

\* Python's a // b for b # 0: floor division
PyFloorDiv(a, b) == IF b > 0 THEN a \div b ELSE (-a) \div (-b)

\* mutant of Arange: the range starts at 1
ArangeFromOne(m) == [i \in 1..m |-> i]

\* np.arange(m): 0, 1, ..., m-1; empty when m <= 0
Arange(m) == [i \in 1..m |-> i - 1]

\* mutant of CumSum: the sizes themselves, not their running sum
NoCumSum(s) == s

\* np.cumsum(s)
RECURSIVE CumSum(_)
CumSum(s) ==
    IF s = <<>> THEN <<>>
    ELSE LET p == CumSum(SubSeq(s, 1, Len(s) - 1))
         IN Append(p, (IF p = <<>> THEN 0 ELSE p[Len(p)]) + s[Len(s)])

\* [idx for grp in groups for idx in grp]
RECURSIVE Flatten(_)
Flatten(ls) ==
    IF ls = <<>> THEN <<>> ELSE Head(ls) \o Flatten(Tail(ls))

(* ------------------------------------------------------------------ *)
(* The groups argument.  type is the Python type of the argument       *)
(* ("none" is None, "other" any type that is neither int nor list);    *)
(* for a list, elem is the type of its elements ("empty" for []),      *)
(* sizes holds a list of ints and lists a list of lists of ints.       *)
(* ------------------------------------------------------------------ *)
PyNone == [type |-> "none", k |-> 0, elem |-> "empty", sizes |-> <<>>, lists |-> <<>>]
PyOther == [type |-> "other", k |-> 0, elem |-> "empty", sizes |-> <<>>, lists |-> <<>>]
PyInt(i) == [type |-> "int", k |-> i, elem |-> "empty", sizes |-> <<>>, lists |-> <<>>]
PyEmptyList == [type |-> "list", k |-> 0, elem |-> "empty", sizes |-> <<>>, lists |-> <<>>]
PyOtherList == [type |-> "list", k |-> 0, elem |-> "other", sizes |-> <<>>, lists |-> <<>>]
PySizes(s) == [type |-> "list", k |-> 0, elem |-> "int", sizes |-> s, lists |-> <<>>]
PyLists(ls) == [type |-> "list", k |-> 0, elem |-> "list", sizes |-> <<>>, lists |-> ls]

Raised(exc) == [status |-> exc, grp_ptr |-> <<>>, grp_indices |-> <<>>]
Returned(ptr, idx) == [status |-> "ok", grp_ptr |-> ptr, grp_indices |-> idx]
NoResult == Raised("none")

\* mutant of NotMultiple: // written for %
NotMultipleFloorDiv(n, grp_size) == PyFloorDiv(n, grp_size) # 0

\* n_features % grp_size != 0, line 328
NotMultiple(n, grp_size) == PyMod(n, grp_size) # 0

(* _grp_converter(groups, n_features), homotopy.py lines 325-343 *)
GrpConverter(groups, n_features) ==
    IF groups.type = "int" THEN
        LET grp_size == groups.k IN
        IF grp_size = 0 THEN Raised("ZeroDivisionError")
        ELSE IF NotMultiple(n_features, grp_size) THEN Raised("ValueError")
        ELSE LET n_groups == PyFloorDiv(n_features, grp_size)
             IN Returned([i \in 1..(n_groups + 1) |-> grp_size * Arange(n_groups + 1)[i]],
                         Arange(n_features))
    ELSE IF groups.type = "list" /\ groups.elem = "empty" THEN Raised("IndexError")
    ELSE IF groups.type = "list" /\ groups.elem = "int" THEN
        Returned(CumSum(<<0>> \o groups.sizes), Arange(n_features))
    ELSE IF groups.type = "list" /\ groups.elem = "list" THEN
        LET grp_sizes == [g \in 1..Len(groups.lists) |-> Len(groups.lists[g])]
        IN Returned(CumSum(<<0>> \o grp_sizes), Flatten(groups.lists))
    ELSE Raised("ValueError")

(* ------------------------------------------------------------------ *)
(* Inputs of _grp_converter                                            *)
(* ------------------------------------------------------------------ *)
IntGroups == {PyInt(i) : i \in (-MaxSize)..MaxSize}
SizeGroups == {PySizes(s) : s \in SeqsOf(0..MaxSize, 1, MaxGroups)}
IndexLists == SeqsOf(0..MaxIndex, 0, MaxSize)
ListGroups == {PyLists(ls) : ls \in SeqsOf(IndexLists, 1, MaxGroups)}
GroupInputs ==
    IntGroups \cup SizeGroups \cup ListGroups
        \cup {PyNone, PyOther, PyEmptyList, PyOtherList}

(* ------------------------------------------------------------------ *)
(* The path drivers: values                                            *)
(* ------------------------------------------------------------------ *)
NFeatures == 1      \* X.shape[1] in celer_path and mtl_path
MaxAlphas == 2      \* the grid has at most MaxAlphas points
MaxAlpha == 2       \* supplied penalties and alpha_max range over 1..MaxAlpha
MaxP0 == 2          \* the caller's p0 ranges over 1..MaxP0
MaxSamples == 1     \* y has 1..MaxSamples entries
Tol == 1            \* the tol argument, in the unit of the duality gaps
MtlFirstP0 == 10    \* mtl_path line 412: p_t = 10 at the first grid point

CoefVals == {0, 1}                      \* a coefficient: zero or non-zero
Coef(n) == [1..n -> CoefVals]           \* a coefficient vector w (one task column for W)
ZeroCoef(n) == [j \in 1..n |-> 0]       \* np.zeros(n_features)
ThetaVals == {0, 1}                     \* a dual point: the zero array or another one
GapVals == {Tol - 1, Tol, Tol + 1}      \* a final duality gap: below, at, above tol

\* len(np.where(w != 0)[0]), (w != 0.).sum()
Nnz(w) == Cardinality({j \in DOMAIN w : w[j] # 0})
Max(a, b) == IF a >= b THEN a ELSE b
Min(a, b) == IF a <= b THEN a ELSE b

\* s[lo:hi] for 0 <= lo: Python clamps the slice to the sequence
PySlice(s, lo, hi) == SubSeq(s, lo + 1, Min(hi, Len(s)))

\* str.lower() on the problem names the model passes
PbNames == {"lasso", "Lasso", "logreg", "LOGREG", "grouplasso", "GroupLasso", "ridge", "lasso2"}
\* mutant of Lower: the name is compared as given
LowerIdentity(s) == s

Lower(s) ==
    CASE s = "Lasso" -> "lasso"
      [] s = "LOGREG" -> "logreg"
      [] s = "GroupLasso" -> "grouplasso"
      [] OTHER -> s

\* np.sort(a): ascending, by insertion
RECURSIVE Insert(_, _)
Insert(x, s) ==
    IF s = <<>> THEN <<x>>
    ELSE IF x <= Head(s) THEN <<x>> \o s
    ELSE <<Head(s)>> \o Insert(x, Tail(s))
RECURSIVE NpSort(_)
NpSort(a) == IF a = <<>> THEN <<>> ELSE Insert(Head(a), NpSort(Tail(a)))

\* mutant of SortDescending: the reversal is forgotten
SortAscending(a) == NpSort(a)

\* a[::-1]
Reversed(a) == [i \in 1..Len(a) |-> a[Len(a) + 1 - i]]

\* np.sort(alphas)[::-1], celer_path line 194 and mtl_path line 384
SortDescending(a) == Reversed(NpSort(a))

RECURSIVE Pow(_, _)
Pow(b, e) == IF e = 0 THEN 1 ELSE b * Pow(b, e - 1)

\* alpha_max * np.geomspace(1, eps, n): the grid alpha_max * q^i, i = 0..n-1, with
\* q = eps^(1/(n-1)).  q is the rational eps.num / eps.den and the grid is kept
\* in the unit 1 / eps.den^(n-1), which keeps it integral and its order intact.
GeomGrid(alpha_max, eps, n) ==
    [i \in 1..n |-> alpha_max * Pow(eps.num, i - 1) * Pow(eps.den, n - i)]

\* no copy: the name is bound to the source array itself (a view, an in-place sort)
NoCopy(src, fresh) == src

\* the .copy() of an array: a new array object, whose identity is fresh
Copy(src, fresh) == fresh

\* mutant of Warns: a gap equal to tol warns too
WarnsAtTol(gap, tol) == gap >= tol

\* dual_gaps[t] > tol, celer_path line 309
Warns(gap, tol) == gap > tol

\* mutant of NextIndex: the grid point after a solve is skipped
NextIndexSkip(tt) == tt + 2

\* for t in range(n_alphas): the index after t
NextIndex(tt) == tt + 1

\* which inner solver celer_path calls, lines 283-303
SolverOf(pb, use_PN) ==
    IF pb = GRPLASSO THEN "celer_grp"
    ELSE IF pb = LASSO \/ (pb = LOGREG /\ ~use_PN) THEN "celer"
    ELSE "newton_celer"

\* An inner solve ends with an iterate w, a dual point theta and a final gap, and
\* leaves w and theta in the arrays it was given.
SolverOutputs(n) == [w : Coef(n), theta : ThetaVals, gap : GapVals]

\* X[:, grp_indices[grp_ptr[g]:grp_ptr[g + 1]]] for every g in range(n_groups),
\* lines 186-187 and 219-220: numpy raises IndexError on a column index that is
\* not below n_features
GroupColumnsOk(g, n) ==
    \A i \in 1..(Len(g.grp_ptr) - 1) :
        \A x \in {PySlice(g.grp_indices, g.grp_ptr[i], g.grp_ptr[i + 1])} :
            \A j \in 1..Len(x) : x[j] < n

NoAlphas == [none |-> TRUE, vals |-> <<>>]
GivenAlphas(a) == [none |-> FALSE, vals |-> a]
NoCoefInit == [none |-> TRUE, path |-> <<>>]
GivenCoefInit(p) == [none |-> FALSE, path |-> p]
\* eps < 1, given by the common ratio num/den of the grid
EpsInputs == {[num |-> 1, den |-> 2], [num |-> 1, den |-> 3], [num |-> 2, den |-> 3]}

(* ------------------------------------------------------------------ *)
(* State: one call of an entry point, from its arguments to its end    *)
(* ------------------------------------------------------------------ *)
VARIABLES
    fn,          \* the entry point called: "_grp_converter", "celer_path", "mtl_path"
    pc,          \* "entry", "grid" (validated), "loop", "done" (returned), "raised"
    exc,         \* the exception that ended the call, "none" otherwise
    pb_name,     \* the string the caller passed as pb
    pb,          \* pb once lines 141/143/148 rebound it to a problem code, -1 before
    y,           \* the target vector
    groups,      \* the groups argument
    n_features,  \* the n_features argument / X.shape[1]
    grp,         \* the converter's result (status, grp_ptr, grp_indices)
    use_PN,      \* the use_PN argument
    alphas_arg,  \* the content of the caller's alphas array
    alphas,      \* the local alphas: the argument, then the grid it is rebound to
    eps,         \* the eps argument
    n_alphas,    \* the n_alphas argument, then len(alphas)
    alpha_max,   \* alpha_max of the automatic grid, 0 when alphas is supplied
    coef_init,   \* the caller's coef_init array
    p0_arg,      \* the caller's p0 argument
    p0,          \* the local p0: the argument; celer_path rebinds it in the loop
    coefs,       \* path state: coefs[:, t] is coefs[t + 1]
    thetas,      \* path state: thetas[t] is thetas[t + 1]
    dual_gaps,   \* path state: dual_gaps (gaps in mtl_path)
    w,           \* the content of the array bound to w (W in mtl_path)
    theta,       \* the content of the array bound to theta
    ref,         \* identities of the arrays: next is the next fresh identity
    t,           \* the loop index
    calls,       \* the inner solver's calls so far, in order
    warnings,    \* the grid indices warnings.warn was called for, in order
    result       \* the returned tuple

vars == <<fn, pc, exc, pb_name, pb, y, groups, n_features, grp, use_PN, alphas_arg, alphas,
          eps, n_alphas, alpha_max, coef_init, p0_arg, p0, coefs, thetas, dual_gaps,
          w, theta, ref, t, calls, warnings, result>>

args == <<fn, pb_name, y, groups, n_features, use_PN, eps, p0_arg>>
path_state == <<coefs, thetas, dual_gaps, w, theta, ref, t, calls, warnings>>

NoReturn == [returned |-> FALSE, alphas |-> <<>>, coefs |-> <<>>, dual_gaps |-> <<>>]
NoRefs == [next |-> 3, coef_init |-> 0, alphas_arg |-> 0, alphas |-> 0,
           coefs |-> 0, thetas |-> 0, w |-> 0, theta |-> 0]

(* The state at the entry of a call with the arguments a. *)
Entry(a) ==
    /\ fn = a.fn
    /\ pc = "entry"
    /\ exc = "none"
    /\ pb_name = a.pb
    /\ pb = -1
    /\ y = a.y
    /\ groups = a.groups
    /\ n_features = a.n_features
    /\ grp = NoResult
    /\ use_PN = a.use_PN
    /\ alphas_arg = a.alphas
    /\ alphas = a.alphas
    /\ eps = a.eps
    /\ n_alphas = a.n_alphas
    /\ alpha_max = 0
    /\ coef_init = a.coef_init
    /\ p0_arg = a.p0
    /\ p0 = a.p0
    /\ coefs = <<>>
    /\ thetas = <<>>
    /\ dual_gaps = <<>>
    /\ w = ZeroCoef(a.n_features)
    /\ theta = 0
    /\ ref = [NoRefs EXCEPT !.coef_init = IF a.coef_init.none THEN 0 ELSE 1,
                            !.alphas_arg = IF a.alphas.none THEN 0 ELSE 2,
                            !.alphas = IF a.alphas.none THEN 0 ELSE 2]
    /\ t = 0
    /\ calls = <<>>
    /\ warnings = <<>>
    /\ result = NoReturn

(* ------------------------------------------------------------------ *)
(* Arguments                                                           *)
(* ------------------------------------------------------------------ *)
DefaultEps == [num |-> 1, den |-> 2]
Labels == {-1, 0, 1}
YInputs == SeqsOf(Labels, 1, MaxSamples)

\* the alphas, eps and n_alphas arguments: a supplied sequence, or None with the
\* parameters of the automatic grid
SuppliedGrids ==
    {[alphas |-> GivenAlphas(a), eps |-> DefaultEps, n_alphas |-> MaxAlphas] :
        a \in SeqsOf(1..MaxAlpha, 0, MaxAlphas)}
AutoGrids ==
    {[alphas |-> NoAlphas, eps |-> e, n_alphas |-> n] :
        e \in EpsInputs, n \in 0..MaxAlphas}

\* _grp_converter ignores n_features when groups is a list of index lists
ConvCall(g, n) ==
    [fn |-> "_grp_converter", pb |-> "", y |-> <<>>, groups |-> g, n_features |-> n,
     use_PN |-> FALSE, alphas |-> NoAlphas, eps |-> DefaultEps, n_alphas |-> 0,
     coef_init |-> NoCoefInit, p0 |-> 1]
ConvArgs ==
    {ConvCall(g, n) : g \in GroupInputs \ ListGroups, n \in 0..MaxFeatures}
        \cup {ConvCall(g, MaxIndex + 1) : g \in ListGroups}

CelerArgs(n, pbs, ys, gs, pns, grids, cis, p0s) ==
    {[fn |-> "celer_path", pb |-> p, y |-> yy, groups |-> g, n_features |-> n,
      use_PN |-> pn, alphas |-> gr.alphas, eps |-> gr.eps, n_alphas |-> gr.n_alphas,
      coef_init |-> ci, p0 |-> q] :
        p \in pbs, yy \in ys, g \in gs, pn \in pns, gr \in grids, ci \in cis, q \in p0s}

\* mtl_path takes coef_init with one slot per grid point
MtlArgs(n, grids, cis, p0s) ==
    {[fn |-> "mtl_path", pb |-> "", y |-> <<>>, groups |-> PyNone, n_features |-> n,
      use_PN |-> FALSE, alphas |-> gr.alphas, eps |-> gr.eps, n_alphas |-> gr.n_alphas,
      coef_init |-> IF ci.none THEN ci
                    ELSE GivenCoefInit([i \in 1..(IF gr.alphas.none THEN gr.n_alphas
                                                  ELSE Len(gr.alphas.vals)) |-> ci.path[1]]),
      p0 |-> q] :
        gr \in grids, ci \in cis, q \in p0s}

CoefInits(n) == {NoCoefInit} \cup {GivenCoefInit(<<c>>) : c \in Coef(n)}

(* ------------------------------------------------------------------ *)
(* _grp_converter called directly, as test_convert_groups does         *)
(* ------------------------------------------------------------------ *)
CallGrpConverter ==
    /\ fn = "_grp_converter"
    /\ pc = "entry"
    /\ grp' = GrpConverter(groups, n_features)
    /\ exc' = IF grp'.status = "ok" THEN "none" ELSE grp'.status
    /\ pc' = IF grp'.status = "ok" THEN "done" ELSE "raised"
    /\ UNCHANGED <<args, alphas_arg, pb, alphas, n_alphas, alpha_max, coef_init, p0,
                   path_state, result>>

(* ------------------------------------------------------------------ *)
(* celer_path                                                          *)
(* ------------------------------------------------------------------ *)
\* lines 138-155: the problem name, the labels, the groups
CelerValidate ==
    /\ fn = "celer_path"
    /\ pc = "entry"
    /\ LET name == Lower(pb_name)
           bad_y == {y[i] : i \in 1..Len(y)} \ {-1, 1} # {}
           conv == GrpConverter(groups, n_features)
       IN IF name \notin {"lasso", "logreg", "grouplasso"}
          THEN /\ pc' = "raised" /\ exc' = "ValueError"
               /\ UNCHANGED <<pb, grp>>
          ELSE IF name = "lasso"
          THEN /\ pc' = "grid" /\ pb' = LASSO
               /\ UNCHANGED <<exc, grp>>
          ELSE IF name = "logreg"
          THEN /\ pb' = LOGREG
               /\ pc' = IF bad_y THEN "raised" ELSE "grid"
               /\ exc' = IF bad_y THEN "ValueError" ELSE "none"
               /\ UNCHANGED grp
          ELSE /\ pb' = GRPLASSO
               /\ IF groups.type = "none"
                  THEN /\ pc' = "raised" /\ exc' = "ValueError"
                       /\ UNCHANGED grp
                  ELSE /\ grp' = conv
                       /\ pc' = IF conv.status = "ok" THEN "grid" ELSE "raised"
                       /\ exc' = IF conv.status = "ok" THEN "none" ELSE conv.status
    /\ UNCHANGED <<args, alphas_arg, alphas, n_alphas, alpha_max, coef_init, p0, path_state, result>>

\* lines 174-242: the grid, the path-state arrays, the norms of the columns
CelerGrid ==
    /\ fn = "celer_path"
    /\ pc = "grid"
    /\ IF pb = GRPLASSO /\ ~GroupColumnsOk(grp, n_features)
       THEN /\ pc' = "raised" /\ exc' = "IndexError"
            /\ UNCHANGED <<alphas_arg, alphas, n_alphas, alpha_max, coefs, thetas,
                           dual_gaps, ref, t>>
       ELSE \E am \in (IF alphas.none THEN 1..MaxAlpha ELSE {0}) :
            LET grid == IF alphas.none THEN GeomGrid(am, eps, n_alphas)
                        ELSE SortDescending(alphas.vals)
                \* np.sort returns a sorted copy, [::-1] a view of that copy
                grid_id == IF alphas.none THEN ref.next + 2
                           ELSE Copy(ref.alphas, ref.next + 2)
            IN /\ alpha_max' = am
               /\ alphas' = GivenAlphas(grid)
               /\ alphas_arg' = IF grid_id = ref.alphas_arg THEN GivenAlphas(grid)
                                ELSE alphas_arg
               /\ n_alphas' = Len(grid)
               /\ coefs' = [i \in 1..Len(grid) |-> ZeroCoef(n_features)]
               /\ thetas' = [i \in 1..Len(grid) |-> 0]
               /\ dual_gaps' = [i \in 1..Len(grid) |-> 0]
               /\ ref' = [ref EXCEPT !.coefs = ref.next, !.thetas = ref.next + 1,
                                     !.alphas = grid_id, !.next = ref.next + 3]
               /\ t' = 0
               /\ pc' = "loop"
               /\ UNCHANGED exc
    /\ UNCHANGED <<args, pb, grp, coef_init, p0, w, theta, calls, warnings, result>>

\* a broadcast write: the output assigned to the whole array instead of slot t
RecordEverywhere(arr, base_id, arr_id, tt, val) ==
    [i \in 1..Len(arr) |-> val]

\* the write of an inner solve's output into slot t of a path-state array; the
\* solve has also changed slot t - 1 if the array it worked on was that slot itself
Record(arr, base_id, arr_id, tt, val) ==
    [i \in 1..Len(arr) |->
        IF i = tt + 1 \/ (arr_id = base_id /\ i = tt) THEN val ELSE arr[i]]

\* a warm start read from slot t itself, which is still unwritten
PrevIndexSame(tt) == tt

\* lines 253-254, 408: the slot the warm start of grid point t is read from
PrevIndex(tt) == tt - 1

\* lines 245-314: one grid point
CelerStep ==
    /\ fn = "celer_path"
    /\ pc = "loop"
    /\ t < n_alphas
    \* theta0: the dual point lines 269-281 compute from the data at t = 0
    /\ \E sol \in SolverOutputs(n_features), theta0 \in (IF t = 0 THEN ThetaVals ELSE {0}) :
        LET alpha == alphas.vals[t + 1]
            from_init == t = 0 /\ ~coef_init.none
            w_id == IF t > 0 THEN Copy(ref.coefs, ref.next)
                    ELSE IF from_init THEN Copy(ref.coef_init, ref.next)
                    ELSE ref.next
            w_in == IF t > 0 THEN coefs[PrevIndex(t) + 1]
                    ELSE IF from_init THEN coef_init.path[1]
                    ELSE ZeroCoef(n_features)
            theta_id == IF t > 0 THEN Copy(ref.thetas, ref.next + 1) ELSE ref.next + 1
            theta_in == IF t > 0 THEN thetas[PrevIndex(t) + 1] ELSE theta0
            p0_t == IF t > 0 THEN Max(Nnz(w_in), 1)
                    ELSE IF from_init THEN Max(Nnz(w_in), p0)
                    ELSE p0
            solver == SolverOf(pb, use_PN)
            with_theta == solver # "newton_celer"
        IN /\ calls' = Append(calls,
                [solver |-> solver, t |-> t, alpha |-> alpha, p0 |-> p0_t,
                 w_id |-> w_id, w |-> w_in,
                 theta_id |-> IF with_theta THEN theta_id ELSE 0,
                 theta |-> IF with_theta THEN theta_in ELSE 0,
                 grp_ptr |-> IF solver = "celer_grp" THEN grp.grp_ptr ELSE <<>>,
                 grp_indices |-> IF solver = "celer_grp" THEN grp.grp_indices ELSE <<>>])
           /\ p0' = p0_t
           /\ w' = sol.w
           /\ theta' = IF with_theta THEN sol.theta ELSE theta_in
           /\ ref' = [ref EXCEPT !.w = w_id, !.theta = theta_id, !.next = ref.next + 2]
           /\ coef_init' = IF from_init /\ w_id = ref.coef_init
                           THEN GivenCoefInit(<<sol.w>>) ELSE coef_init
           /\ coefs' = Record(coefs, ref.coefs, w_id, t, sol.w)
           /\ thetas' = Record(thetas, ref.thetas, IF with_theta THEN theta_id ELSE 0,
                               t, sol.theta)
           /\ dual_gaps' = [dual_gaps EXCEPT ![t + 1] = sol.gap]
           /\ warnings' = IF Warns(sol.gap, Tol) THEN Append(warnings, t) ELSE warnings
           /\ t' = NextIndex(t)
    /\ UNCHANGED <<args, alphas_arg, pc, exc, pb, grp, alphas, n_alphas, alpha_max, result>>

\* lines 316-322
CelerReturn ==
    /\ fn = "celer_path"
    /\ pc = "loop"
    /\ t >= n_alphas
    /\ pc' = "done"
    /\ result' = [returned |-> TRUE, alphas |-> alphas.vals, coefs |-> coefs,
                  dual_gaps |-> dual_gaps]
    /\ UNCHANGED <<args, alphas_arg, exc, pb, grp, alphas, n_alphas, alpha_max, coef_init,
                   p0, path_state>>

(* ------------------------------------------------------------------ *)
(* mtl_path                                                            *)
(* ------------------------------------------------------------------ *)
\* lines 374-399: the grid, the path-state arrays, R and theta
MtlGrid ==
    /\ fn = "mtl_path"
    /\ pc = "entry"
    /\ \E am \in (IF alphas.none THEN 1..MaxAlpha ELSE {0}) :
        LET grid == IF alphas.none THEN GeomGrid(am, eps, n_alphas)
                    ELSE SortDescending(alphas.vals)
            grid_id == IF alphas.none THEN ref.next + 3
                       ELSE Copy(ref.alphas, ref.next + 3)
        IN /\ alpha_max' = am
           /\ alphas' = GivenAlphas(grid)
           /\ alphas_arg' = IF grid_id = ref.alphas_arg THEN GivenAlphas(grid)
                            ELSE alphas_arg
           /\ n_alphas' = Len(grid)
           /\ coefs' = IF coef_init.none THEN [i \in 1..Len(grid) |-> ZeroCoef(n_features)]
                       ELSE coef_init.path
           /\ thetas' = [i \in 1..Len(grid) |-> 0]
           /\ dual_gaps' = [i \in 1..Len(grid) |-> 0]
           /\ theta' = 0
           /\ ref' = [ref EXCEPT !.coefs = IF coef_init.none THEN ref.next
                                           ELSE Copy(ref.coef_init, ref.next),
                                 !.thetas = ref.next + 1,
                                 !.theta = ref.next + 2,
                                 !.alphas = grid_id,
                                 !.next = ref.next + 4]
           /\ t' = 0
           /\ pc' = "loop"
    /\ UNCHANGED <<args, exc, pb, grp, coef_init, p0, w, calls, warnings, result>>

\* lines 402-422: one grid point
MtlStep ==
    /\ fn = "mtl_path"
    /\ pc = "loop"
    /\ t < n_alphas
    /\ \E sol \in SolverOutputs(n_features) :
        LET alpha == alphas.vals[t + 1]
            w_id == Copy(ref.coefs, ref.next)
            w_in == IF t > 0 THEN coefs[PrevIndex(t) + 1] ELSE coefs[t + 1]
            p_t == IF t > 0 THEN Max(Nnz(w_in), p0) ELSE MtlFirstP0
            new_coefs == [i \in 1..Len(coefs) |->
                            IF i = t + 1 \/ (w_id = ref.coefs /\ i = Max(t, 1))
                            THEN sol.w ELSE coefs[i]]
        IN /\ calls' = Append(calls,
                [solver |-> "celer_mtl", t |-> t, alpha |-> alpha, p0 |-> p_t,
                 w_id |-> w_id, w |-> w_in,
                 theta_id |-> ref.theta, theta |-> theta,
                 grp_ptr |-> <<>>, grp_indices |-> <<>>])
           /\ w' = sol.w
           /\ theta' = sol.theta
           /\ ref' = [ref EXCEPT !.w = w_id, !.next = ref.next + 1]
           /\ coefs' = new_coefs
           /\ coef_init' = IF ~coef_init.none /\ ref.coefs = ref.coef_init
                           THEN GivenCoefInit(new_coefs) ELSE coef_init
           /\ thetas' = [thetas EXCEPT ![t + 1] = sol.theta]
           /\ dual_gaps' = [dual_gaps EXCEPT ![t + 1] = sol.gap]
           /\ t' = NextIndex(t)
    /\ UNCHANGED <<args, alphas_arg, pc, exc, pb, grp, alphas, n_alphas, alpha_max, p0,
                   warnings, result>>

\* lines 424-429
MtlReturn ==
    /\ fn = "mtl_path"
    /\ pc = "loop"
    /\ t >= n_alphas
    /\ pc' = "done"
    /\ result' = [returned |-> TRUE, alphas |-> alphas.vals, coefs |-> coefs,
                  dual_gaps |-> dual_gaps]
    /\ UNCHANGED <<args, alphas_arg, exc, pb, grp, alphas, n_alphas, alpha_max, coef_init,
                   p0, path_state>>

(* ------------------------------------------------------------------ *)
(* Specifications                                                      *)
(* ------------------------------------------------------------------ *)
\* the groups arguments celer_path is called with
PathGroups ==
    {PyInt(i) : i \in 1..MaxSize}
        \cup {PySizes(sz) : sz \in SeqsOf(1..MaxSize, 1, MaxGroups)}
        \cup {PyLists(ls) : ls \in SeqsOf(SeqsOf(0..MaxIndex, 1, 1), 1, MaxGroups)}
        \cup {PyNone, PyOther, PyEmptyList, PyOtherList}

\* the supplied grids 1, 2, ..., n in ascending order, n = 0..MaxAlphas
AscendingGrids ==
    {[alphas |-> GivenAlphas([i \in 1..n |-> i]), eps |-> DefaultEps, n_alphas |-> MaxAlphas] :
        n \in 0..MaxAlphas}
OneGrid == {[alphas |-> GivenAlphas(<<1>>), eps |-> DefaultEps, n_alphas |-> MaxAlphas]}
OneY == {<<1>>}

(* _grp_converter alone, on every groups argument and feature count *)
InitConv == \E a \in ConvArgs : Entry(a)
NextConv == CallGrpConverter
SpecConv == InitConv /\ [][NextConv]_vars

Next ==
    \/ CelerValidate
    \/ CelerGrid
    \/ CelerStep
    \/ CelerReturn
    \/ MtlGrid
    \/ MtlStep
    \/ MtlReturn

(* The path loop on the ascending supplied grids: the lasso and the        *)
(* multitask path with every coef_init and p0, the other problems and      *)
(* solvers of celer_path with the default coef_init.                       *)
PathArgs ==
    CelerArgs(NFeatures, {"lasso"}, OneY, {PyNone}, {FALSE}, AscendingGrids,
              CoefInits(NFeatures), 1..MaxP0)
    \cup CelerArgs(NFeatures, {"logreg"}, OneY, {PyNone}, BOOLEAN, AscendingGrids,
                   {NoCoefInit}, {1})
    \cup CelerArgs(NFeatures, {"grouplasso"}, OneY, {PyInt(1)}, {FALSE}, AscendingGrids,
                   {NoCoefInit}, {1})
    \cup MtlArgs(NFeatures, AscendingGrids, CoefInits(NFeatures), 1..MaxP0)
Init == \E a \in PathArgs : Entry(a)
Spec == Init /\ [][Next]_vars

(* The arguments that validation and the grid depend on: every problem     *)
(* name, label vector and groups argument on one grid point, and every     *)
(* supplied or automatic grid for the lasso and the multitask path on one  *)
(* feature.                                                                *)
InputArgs ==
    CelerArgs(NFeatures, PbNames, YInputs, {PyNone}, {FALSE}, OneGrid, {NoCoefInit}, {1})
    \cup CelerArgs(NFeatures, {"grouplasso", "GroupLasso"}, OneY, PathGroups, {FALSE},
                   OneGrid, {NoCoefInit}, {1})
    \cup CelerArgs(1, {"lasso"}, OneY, {PyNone}, {FALSE}, SuppliedGrids \cup AutoGrids,
                   {NoCoefInit}, {1})
    \cup MtlArgs(1, SuppliedGrids \cup AutoGrids, {NoCoefInit}, {1})
InitInputs == \E a \in InputArgs : Entry(a)
SpecInputs == InitInputs /\ [][Next]_vars

(* ------------------------------------------------------------------ *)
(* Properties of _grp_converter (under SpecConv)                       *)
(* ------------------------------------------------------------------ *)
ConvEnded == fn = "_grp_converter" /\ pc # "entry"
IsIdentity(idx, n) == Len(idx) = n /\ \A j \in 1..n : idx[j] = j - 1
NoPartition == pc = "raised" /\ grp.grp_ptr = <<>> /\ grp.grp_indices = <<>>

\* C1: for a group size k >= 1 and a feature count n with n % k = 0 the converter
\* returns the n/k + 1 boundaries 0, k, 2k, ..., n and the indices 0, 1, ..., n-1:
\* n/k contiguous groups of size k that cover [0, n) once.
C1_UniformGroups ==
    (ConvEnded /\ groups.type = "int" /\ groups.k >= 1 /\ n_features % groups.k = 0)
        => /\ pc = "done"
           /\ grp.status = "ok"
           /\ Len(grp.grp_ptr) = (n_features \div groups.k) + 1
           /\ \A i \in 1..Len(grp.grp_ptr) : grp.grp_ptr[i] = (i - 1) * groups.k
           /\ grp.grp_ptr[Len(grp.grp_ptr)] = n_features
           /\ IsIdentity(grp.grp_indices, n_features)

C1_Witness ==
    /\ ConvEnded /\ groups = PyInt(2) /\ n_features = 4
    /\ grp.grp_ptr = <<0, 2, 4>> /\ grp.grp_indices = <<0, 1, 2, 3>>

\* the sizes of the groups of a list-valued groups argument
SizesOf(g) ==
    IF g.elem = "int" THEN g.sizes ELSE [i \in 1..Len(g.lists) |-> Len(g.lists[i])]

\* C2: for a list of sizes or a list of index lists, grp_ptr is 0 followed by the
\* running sum of the group sizes; grp_indices is 0..n_features-1 for a list of
\* sizes and the index lists one after the other, each in its own order, for a
\* list of index lists.
C2_ListGroups ==
    (ConvEnded /\ groups.type = "list" /\ groups.elem \in {"int", "list"})
        => /\ pc = "done"
           /\ grp.status = "ok"
           /\ Len(grp.grp_ptr) = Len(SizesOf(groups)) + 1
           /\ grp.grp_ptr[1] = 0
           /\ \A g \in 1..Len(SizesOf(groups)) :
                grp.grp_ptr[g + 1] = grp.grp_ptr[g] + SizesOf(groups)[g]
           /\ groups.elem = "int" => IsIdentity(grp.grp_indices, n_features)
           /\ groups.elem = "list" =>
                /\ Len(grp.grp_indices) = grp.grp_ptr[Len(grp.grp_ptr)]
                /\ \A g \in 1..Len(groups.lists) : \A j \in 1..Len(groups.lists[g]) :
                     grp.grp_indices[grp.grp_ptr[g] + j] = groups.lists[g][j]

C2_Witness ==
    /\ ConvEnded /\ groups = PyLists(<<<<1, 0>>, <<0>>>>)
    /\ grp.grp_ptr = <<0, 2, 3>> /\ grp.grp_indices = <<1, 0, 0>>

PathReturned == fn \in {"celer_path", "mtl_path"} /\ pc = "done"
StrictlyDescending(a) == \A i \in 1..(Len(a) - 1) : a[i] > a[i + 1]
NonIncreasing(a) == \A i \in 1..(Len(a) - 1) : a[i] >= a[i + 1]
Distinct(a) == \A i, j \in 1..Len(a) : i # j => a[i] # a[j]
SameValues(a, b) ==
    /\ Len(a) = Len(b)
    /\ \A v \in {a[i] : i \in 1..Len(a)} :
         Cardinality({i \in 1..Len(a) : a[i] = v}) = Cardinality({i \in 1..Len(b) : b[i] = v})

\* C3 as stated: the alphas array celer_path and mtl_path return is sorted strictly
\* descending, for a supplied sequence in any order and for the automatic grid.
C3_StrictlyDescending ==
    PathReturned => StrictlyDescending(result.alphas)

\* C3 as amended: the returned alphas are the supplied values in non-increasing
\* order, strictly descending when the supplied values are pairwise distinct; the
\* automatic grid is strictly descending when alpha_max > 0 and eps < 1.
C3_SortedDescending ==
    PathReturned =>
        /\ ~alphas_arg.none =>
             /\ SameValues(result.alphas, alphas_arg.vals)
             /\ NonIncreasing(result.alphas)
             /\ Distinct(alphas_arg.vals) => StrictlyDescending(result.alphas)
        /\ (alphas_arg.none /\ alpha_max > 0 /\ eps.num < eps.den)
             => (Len(result.alphas) = n_alphas /\ StrictlyDescending(result.alphas))

C3_Witness ==
    /\ PathReturned /\ fn = "mtl_path"
    /\ alphas_arg = GivenAlphas(<<1, 2>>) /\ result.alphas = <<2, 1>>

CaseInsensitive(name) ==
    IF name \in {"lasso", "Lasso"} THEN "lasso"
    ELSE IF name \in {"logreg", "LOGREG"} THEN "logreg"
    ELSE IF name \in {"grouplasso", "GroupLasso"} THEN "grouplasso"
    ELSE "unsupported"
BadLabels == \E i \in 1..Len(y) : y[i] \notin {-1, 1}
RaisedBeforeSolving ==
    pc = "raised" /\ exc = "ValueError" /\ calls = <<>> /\ ~result.returned

\* C7: celer_path raises ValueError before any inner solve, and returns nothing,
\* when pb is, letter case aside, none of lasso, logreg, grouplasso; when pb is
\* logreg and y has a value other than -1 and 1; when pb is grouplasso and groups
\* is None.  A supported name in another letter case is not rejected.
C7_ValidationRaises ==
    (fn = "celer_path" /\ pc # "entry") =>
        /\ CaseInsensitive(pb_name) = "unsupported" => RaisedBeforeSolving
        /\ (CaseInsensitive(pb_name) = "logreg" /\ BadLabels) => RaisedBeforeSolving
        /\ (CaseInsensitive(pb_name) = "grouplasso" /\ groups.type = "none")
              => RaisedBeforeSolving
        /\ CaseInsensitive(pb_name) = "lasso" => pc # "raised"
        /\ (CaseInsensitive(pb_name) = "logreg" /\ ~BadLabels) => pc # "raised"
        /\ pc = "raised" => (calls = <<>> /\ ~result.returned)

C7_Witness ==
    /\ fn = "celer_path" /\ pb_name = "LOGREG" /\ y = <<0>>
    /\ pc = "raised" /\ exc = "ValueError" /\ calls = <<>>

\* the partition invariant: grp_ptr starts at 0, increases and ends at n; grp_indices
\* is a permutation of 0..n-1
IsPartition(ptr, idx, n) ==
    /\ Len(ptr) >= 1
    /\ ptr[1] = 0
    /\ \A i \in 1..(Len(ptr) - 1) : ptr[i] <= ptr[i + 1]
    /\ ptr[Len(ptr)] = n
    /\ Len(idx) = n
    /\ \A v \in 0..(n - 1) : \E j \in 1..Len(idx) : idx[j] = v

\* C9 as stated: every partition the converter returns and celer_path hands to the
\* group solver satisfies the partition invariant.
C9_PartitionInvariant ==
    \A i \in 1..Len(calls) :
        calls[i].solver = "celer_grp"
            => IsPartition(calls[i].grp_ptr, calls[i].grp_indices, n_features)

(* ------------------------------------------------------------------ *)
(* Properties of the path loop (under Spec)                            *)
(* ------------------------------------------------------------------ *)
InLoop == pc \in {"loop", "done"}
WarnedAt(i) == \E j \in 1..Len(warnings) : warnings[j] = i
WarnedOnceAt(i) == Cardinality({j \in 1..Len(warnings) : warnings[j] = i}) = 1

\* C4: in celer_path a grid point whose recorded gap exceeds tol gets one
\* ConvergenceWarning and nothing is raised: the loop solves every remaining grid
\* point and the full result is returned; a grid point whose gap is <= tol gets no
\* warning.
C4_WarnAndContinue ==
    (fn = "celer_path" /\ t > 0) =>
        /\ InLoop /\ exc = "none"
        /\ \A i \in 1..t : IF dual_gaps[i] > Tol THEN WarnedOnceAt(i - 1)
                                                 ELSE ~WarnedAt(i - 1)
        /\ \A j \in 1..Len(warnings) : warnings[j] < t
        /\ (pc = "loop" /\ t < n_alphas) => ENABLED CelerStep
        /\ (pc = "loop" /\ t >= n_alphas) => ENABLED CelerReturn
        /\ pc = "done" =>
             /\ t = n_alphas /\ Len(calls) = n_alphas
             /\ result = [returned |-> TRUE, alphas |-> alphas.vals, coefs |-> coefs,
                          dual_gaps |-> dual_gaps]
             /\ Len(result.coefs) = n_alphas /\ Len(result.dual_gaps) = n_alphas

C4_Witness ==
    /\ fn = "celer_path" /\ pc = "done" /\ n_alphas = 2
    /\ dual_gaps = <<Tol + 1, Tol>> /\ warnings = <<0>> /\ Len(calls) = 2

\* C5 as stated: in mtl_path a grid point whose gap exceeds tol at termination
\* gets a convergence warning, and the path continues.
C5_MtlWarns ==
    (fn = "mtl_path" /\ InLoop) =>
        \A i \in 1..t : dual_gaps[i] > Tol => WarnedAt(i - 1)

\* C8: both drivers call the inner solver once per grid index t = 0..n_alphas-1,
\* in increasing t and descending penalty; the first grid point is solved like the
\* others and no grid point is skipped after one that did not converge.
C8_EveryGridPointSolved ==
    (fn \in {"celer_path", "mtl_path"} /\ InLoop) =>
        /\ Len(calls) = t /\ t <= n_alphas
        /\ \A i \in 1..Len(calls) :
             /\ calls[i].t = i - 1
             /\ calls[i].alpha = alphas.vals[i]
             /\ calls[i].solver =
                  (IF fn = "mtl_path" THEN "celer_mtl" ELSE SolverOf(pb, use_PN))
        /\ \A i \in 1..(Len(calls) - 1) : calls[i].alpha >= calls[i + 1].alpha
        /\ (pc = "loop" /\ t < n_alphas) => ENABLED (CelerStep \/ MtlStep)
        /\ pc = "done" => Len(calls) = n_alphas

C8_Witness ==
    /\ fn = "mtl_path" /\ pc = "done" /\ n_alphas = 2
    /\ dual_gaps[1] > Tol /\ Len(calls) = 2 /\ calls[1].t = 0 /\ calls[2].t = 1

\* C10 as stated: at every grid point t > 0 the coefficient array and the dual-point
\* array handed to the inner solver are copies: they alias neither the arrays
\* handed over at t - 1 nor the path-state arrays.
C10_PrivateCopies ==
    \A i \in 2..Len(calls) :
        /\ calls[i].w_id # calls[i - 1].w_id
        /\ calls[i].w_id \notin {ref.coefs, ref.thetas}
        /\ calls[i].theta_id # 0 =>
             /\ calls[i].theta_id # calls[i - 1].theta_id
             /\ calls[i].theta_id \notin {ref.coefs, ref.thetas}

(* ------------------------------------------------------------------ *)
(* The initial working-set size                                         *)
(* ------------------------------------------------------------------ *)
\* C11: at every grid point the p0 handed to the inner solver is the smaller of
\* the number of non-zero coordinates of the warm start and the caller's p0, so
\* that it never exceeds the caller's p0, the first grid point included.
C11_InitialWorkingSet ==
    \A k \in 1..Len(calls) :
        /\ calls[k].p0 = Min(Nnz(calls[k].w), p0_arg)
        /\ calls[k].p0 <= p0_arg

(* ------------------------------------------------------------------ *)
(* The path-state arrays                                                *)
(* ------------------------------------------------------------------ *)
\* the path-state arrays have one slot per grid point
OneSlotPerGridPoint ==
    /\ Len(coefs) = n_alphas
    /\ Len(thetas) = n_alphas
    /\ Len(dual_gaps) = n_alphas

\* slot i (counted from 1) of every path-state array is the same before and after the step
SlotKept(i) ==
    /\ coefs'[i] = coefs[i]
    /\ thetas'[i] = thetas[i]
    /\ dual_gaps'[i] = dual_gaps[i]

WarmCoefs(c) ==
    IF c.t > 0 THEN c.w = coefs[c.t]
    ELSE IF coef_init.none THEN c.w = [j \in 1..n_features |-> 0]
    ELSE c.w = coef_init.path[1]

\* the call c was handed a dual point, and it is the one recorded for the
\* previous grid point
WarmDual(c) == c.theta_id # 0 /\ c.theta = thetas[c.t]

\* C13 as stated: every inner solve starts from the coefficients recorded for
\* grid point t - 1 (coef_init or zeros at t = 0), and every inner solve of
\* celer_path at t > 0 also from the dual point recorded for t - 1.
C13_WarmStart ==
    \A k \in 1..Len(calls) :
        /\ WarmCoefs(calls[k])
        /\ (fn = "celer_path" /\ calls[k].t > 0) => WarmDual(calls[k])

\* C13 amended: the dual point of grid point t - 1 is handed to celer and
\* celer_grp; newton_celer is handed the coefficients only.
C13_WarmStartCoefs ==
    \A k \in 1..Len(calls) :
        /\ WarmCoefs(calls[k])
        /\ (calls[k].solver \in {"celer", "celer_grp"} /\ calls[k].t > 0)
              => WarmDual(calls[k])
        /\ calls[k].solver = "newton_celer" => calls[k].theta_id = 0

\* a lasso path that started from a non-zero coef_init and whose second solve
\* started from the non-zero coefficients and dual point of the first
C13_Witness ==
    /\ Len(calls) = 2
    /\ calls[1].solver = "celer"
    /\ ~coef_init.none
    /\ calls[1].w = coef_init.path[1]
    /\ Nnz(calls[1].w) > 0
    /\ calls[2].w = coefs[1]
    /\ calls[2].w # calls[1].w
    /\ calls[2].theta = thetas[1]
    /\ calls[2].theta # 0

(* ------------------------------------------------------------------ *)
(* The caller's arrays                                                  *)
(* ------------------------------------------------------------------ *)
\* C14: no step of celer_path or mtl_path changes the content of the caller's
\* coef_init or alphas array, so both hold at the return what they held at the
\* call, whatever the inner solver wrote into its coefficient array and whether
\* or not a convergence warning was issued.
C14_ArgumentsKept ==
    [][coef_init' = coef_init /\ alphas_arg' = alphas_arg]_vars

\* a returned lasso path on an unsorted grid, started from a non-zero coef_init
\* that the first solve overwrote with zeros in its own array, with a warning
C14_Witness ==
    /\ fn = "celer_path"
    /\ pc = "done"
    /\ alphas_arg = GivenAlphas(<<1, 2>>)
    /\ result.alphas = <<2, 1>>
    /\ ~coef_init.none
    /\ Nnz(coef_init.path[1]) > 0
    /\ calls[1].w = coef_init.path[1]
    /\ Nnz(coefs[1]) = 0
    /\ warnings # <<>>

====
